---- MODULE Spec2Model ----
(***************************************************************************)
(* Model of the HTTP front end of the Snowflake MCP server                 *)
(* (src/http_server.py, started by src/start_http_server.py).              *)
(*                                                                         *)
(* State: the module global mcp_server (None until initialize_server has   *)
(* run), the invocations suspended inside an awaited handler, the outcome  *)
(* of the last step taken by the tool gateway, the event-stream generators *)
(* of /sse and the event loop's clock.                                     *)
(***************************************************************************)
EXTENDS Integers, Sequences, FiniteSets, TLC

VARIABLES
    mcp_server,   \* the global MCPHTTPServer instance, or None
    pending,      \* number of call_tool coroutines suspended at `await handler(...)`
    last,         \* what the last gateway step did: response and handler calls made
    streams,      \* one record per /sse connection: its event_stream generator
    clock         \* asyncio.get_event_loop().time(), in seconds

vars == <<mcp_server, pending, last, streams, clock>>

----------------------------------------------------------------------------
(* Bounds of the model *)

MaxPending == 2      \* invocations suspended in a handler at the same time
MaxItems == 2        \* length of a list returned by a handler
MaxStreams == 2      \* /sse connections opened in a behaviour
MaxEvents == 3       \* events observed per stream
MaxClock == 60       \* last clock value explored
TickStep == 15       \* granularity of the clock

(* Program constants *)

SleepInterval == 30
StatusOK == 200
StatusServerFault == 500

----------------------------------------------------------------------------
(* Python values *)

None == [type |-> "NoneType"]

Min(S) == CHOOSE x \in S : \A y \in S : x <= y

----------------------------------------------------------------------------
(* The tool catalog built by MCPHTTPServer.__init__ *)

Tool(name, description, input_schema, handler, tags) ==
    [name |-> name, description |-> description, input_schema |-> input_schema,
     handler |-> [callable |-> handler], tags |-> tags]

ObjectSchema(required) == [type |-> "object", required |-> required]

ReadTools ==
    << Tool("list_databases", "List all available databases in Snowflake",
            ObjectSchema(<<>>), "handle_list_databases", <<>>),
       Tool("list_schemas", "List all schemas in a database",
            ObjectSchema(<<"database">>), "handle_list_schemas", <<>>),
       Tool("list_tables", "List all tables in a specific database and schema",
            ObjectSchema(<<"database", "schema">>), "handle_list_tables", <<>>),
       Tool("describe_table", "Get the schema information for a specific table",
            ObjectSchema(<<"table_name">>), "handle_describe_table", <<>>),
       Tool("read_query", "Execute a SELECT query",
            ObjectSchema(<<"query">>), "handle_read_query", <<>>),
       Tool("append_insight", "Add a data insight to the memo",
            ObjectSchema(<<"insight">>), "handle_append_insight", <<"resource_based">>) >>

WriteTools ==
    << Tool("write_query",
            "Execute an INSERT, UPDATE, or DELETE query on the Snowflake database",
            ObjectSchema(<<"query">>), "handle_write_query", <<"write">>),
       Tool("create_table", "Create a new table in the Snowflake database",
            ObjectSchema(<<"query">>), "handle_create_table", <<"write">>) >>

\* self.all_tools: the read tools, extended by the write tools if allow_write
AllTools(allow_write) ==
    IF allow_write THEN ReadTools \o WriteTools ELSE ReadTools

Range(s) == {s[i] : i \in 1..Len(s)}

\* exclude_tags = [] if allow_write else ["write"]
ExcludeTags(allow_write) == IF allow_write THEN <<>> ELSE <<"write">>

\* any(tag in exclude_tags for tag in tool.tags)
AnyTagExcluded(tool, exclude_tags) ==
    \E i \in 1..Len(tool.tags) : tool.tags[i] \in Range(exclude_tags)

AllowedToolsNoExclusion(all_tools, allow_write, exclude_tools) ==
    SelectSeq(all_tools,
              LAMBDA tool : ~AnyTagExcluded(tool, ExcludeTags(allow_write)))

\* self.allowed_tools: the list comprehension filtering self.all_tools
AllowedTools(all_tools, allow_write, exclude_tools) ==
    SelectSeq(all_tools,
              LAMBDA tool : /\ tool.name \notin exclude_tools
                            /\ ~AnyTagExcluded(tool, ExcludeTags(allow_write)))

\* exclusion_config or {"databases": [], "schemas": [], "tables": []}
DefaultExclusionConfig == [databases |-> <<>>, schemas |-> <<>>, tables |-> <<>>]

\* runtime_config.get("exclude_patterns", {...}) in main()
StartupExclusionConfig ==
    [databases |-> <<"temp">>, schemas |-> <<"temp", "information_schema">>,
     tables |-> <<"temp">>]

\* The object MCPHTTPServer.__init__ leaves behind
MCPHTTPServer(allow_write, exclude_tools, exclude_json_results, exclusion_config) ==
    [allow_write |-> allow_write,
     exclude_tools |-> exclude_tools,
     exclude_json_results |-> exclude_json_results,
     exclusion_config |-> exclusion_config,
     all_tools |-> AllTools(allow_write),
     allowed_tools |-> AllowedTools(AllTools(allow_write), allow_write, exclude_tools)]

----------------------------------------------------------------------------
(* Inputs *)

CatalogNames == {t.name : t \in Range(ReadTools \o WriteTools)}

\* a name no catalog entry carries
UncataloguedName == "drop_table"

ToolNames == CatalogNames \cup {UncataloguedName}

\* --exclude-tools: a read tool, a write tool, a name outside the catalog
ExcludeCandidates == {"list_tables", "create_table", UncataloguedName}

ExclusionConfigs == {DefaultExclusionConfig, StartupExclusionConfig}

\* the JSON body of POST /tools/{tool_name}
Arguments == {None, [query |-> "SELECT 1"]}

----------------------------------------------------------------------------
(* What a handler can do once awaited.  The handlers live in                *)
(* src.mcp_snowflake_server.server; their interface: a handler returns a    *)
(* sequence of content items (each optionally exposing .text) or a scalar,  *)
(* or fails with an exception.                                              *)

Return(v) == [kind |-> "return", value |-> v]
Raise(e) == [kind |-> "raise", exc |-> e]

Items ==
    { [type |-> "TextContent", text |-> "3 rows"],
      [type |-> "dict", repr |-> "{'rows': 3}"],
      [type |-> "Unprintable", str_raises |-> "cannot render"] }

Scalars == { None, [type |-> "dict", repr |-> "{'rows': 3}"] }

Exceptions == { [type |-> "ValueError", message |-> "connection lost"] }

ListValue(items) == [type |-> "list", items |-> items]

HandlerOutcomes ==
    {Return(ListValue(l)) : l \in UNION {[1..n -> Items] : n \in 0..MaxItems}}
        \cup {Return(s) : s \in Scalars}
        \cup {Raise(e) : e \in Exceptions}

----------------------------------------------------------------------------
(* MCPHTTPServer.call_tool *)

\* f"Tool {name} is excluded from this data connection"
ExcludedMessage(name) == "Tool " \o name \o " is excluded from this data connection"

\* f"Unknown tool: {name}"
UnknownMessage(name) == "Unknown tool: " \o name

ResolveInCatalog(allowed_tools, name) ==
    LET catalog == ReadTools \o WriteTools
        hits == {i \in 1..Len(catalog) : catalog[i].name = name}
    IN  IF hits = {} THEN None ELSE catalog[Min(hits)].handler

\* next((tool.handler for tool in self.allowed_tools if tool.name == name), None)
ResolveHandler(allowed_tools, name) ==
    LET hits == {i \in 1..Len(allowed_tools) : allowed_tools[i].name = name}
    IN  IF hits = {} THEN None ELSE allowed_tools[Min(hits)].handler

ExclusionConfigForAll(name) == TRUE

\* name in ["list_databases", "list_schemas", "list_tables"]
PassesExclusionConfig(name) ==
    name \in {"list_databases", "list_schemas", "list_tables"}

\* the call handler(arguments, self.db, self.write_detector, self.allow_write, None, ...)
HandlerCall(self, handler, name, arguments) ==
    [handler |-> handler,
     args |-> [arguments |-> arguments, db |-> "self.db",
               write_detector |-> "self.write_detector",
               allow_write |-> self.allow_write, server |-> None],
     kwargs |-> IF PassesExclusionConfig(name)
                THEN [exclusion_config |-> self.exclusion_config,
                      exclude_json_results |-> self.exclude_json_results]
                ELSE [exclude_json_results |-> self.exclude_json_results]]

ExcludedCheckSkipped(self, name) == FALSE

\* name in self.exclude_tools
IsExcluded(self, name) == name \in self.exclude_tools

\* call_tool up to its first suspension: either it has returned, or it awaits
\* the one handler call it made
CallToolBegin(self, name, arguments) ==
    IF IsExcluded(self, name)
    THEN [returned |-> TRUE, body |-> [error |-> ExcludedMessage(name)], invoked |-> <<>>]
    ELSE LET handler == ResolveHandler(self.allowed_tools, name)
         IN  IF handler = None
             THEN [returned |-> TRUE, body |-> [error |-> UnknownMessage(name)],
                   invoked |-> <<>>]
             ELSE [returned |-> FALSE, body |-> None,
                   invoked |-> <<HandlerCall(self, handler, name, arguments)>>]

\* hasattr(item, 'text')
HasAttr(x, attr) == attr \in DOMAIN x

\* str(x)
Str(x) ==
    IF x = None THEN Return("None")
    ELSE IF HasAttr(x, "str_raises")
         THEN Raise([type |-> "TypeError", message |-> x.str_raises])
         ELSE Return(x.repr)

\* item.text if hasattr(item, 'text') else str(item)
ItemText(item) == IF HasAttr(item, "text") THEN Return(item.text) ELSE Str(item)

\* isinstance(result, list)
IsList(v) == v.type = "list"

\* the body of the try block after the handler has completed with `outcome`
TryBlock(outcome) ==
    IF outcome.kind = "raise" THEN outcome
    ELSE IF IsList(outcome.value)
         THEN LET items == outcome.value.items
                  texts == [i \in 1..Len(items) |-> ItemText(items[i])]
                  failed == {i \in 1..Len(items) : texts[i].kind = "raise"}
              IN  IF failed # {} THEN texts[Min(failed)]
                  ELSE Return([result |-> [i \in 1..Len(items) |-> texts[i].value]])
         ELSE LET s == Str(outcome.value)
              IN  IF s.kind = "raise" THEN s ELSE Return([result |-> s.value])

ExceptReraises(e) == Raise(e)

\* except Exception as e: return {"error": str(e)}
ExceptException(e) == Return([error |-> e.message])

\* call_tool from the completion of the awaited handler to its end
CallToolResume(outcome) ==
    LET r == TryBlock(outcome)
    IN  IF r.kind = "raise" THEN ExceptException(r.exc) ELSE r

ToolsListWithTags(self) ==
    [i \in 1..Len(self.allowed_tools) |->
        [name |-> self.allowed_tools[i].name,
         description |-> self.allowed_tools[i].description,
         input_schema |-> self.allowed_tools[i].input_schema,
         tags |-> self.allowed_tools[i].tags]]

\* MCPHTTPServer.get_tools_list
get_tools_list(self) ==
    [i \in 1..Len(self.allowed_tools) |->
        [name |-> self.allowed_tools[i].name,
         description |-> self.allowed_tools[i].description,
         input_schema |-> self.allowed_tools[i].input_schema]]

----------------------------------------------------------------------------
(* The step records kept in `last` *)

Step(op, name, responded, status, body, invoked, outcome) ==
    [op |-> op, name |-> name, responded |-> responded, status |-> status,
     body |-> body, invoked |-> invoked, outcome |-> outcome]

NotInitializedStatusOK(op, name) ==
    Step(op, name, TRUE, StatusOK, [detail |-> "Server not initialized"], <<>>, None)

\* raise HTTPException(status_code=500, detail="Server not initialized")
NotInitialized(op, name) ==
    Step(op, name, TRUE, StatusServerFault, [detail |-> "Server not initialized"],
         <<>>, None)

----------------------------------------------------------------------------
(* Operations of the module *)

\* initialize_server: rebinds the global mcp_server to a new MCPHTTPServer
InitializeServer(allow_write, exclude_tools, exclude_json_results, exclusion_config) ==
    /\ mcp_server' = MCPHTTPServer(allow_write, exclude_tools, exclude_json_results,
                                   exclusion_config)
    /\ last' = Step("initialize_server", "", FALSE, StatusOK, None, <<>>, None)
    /\ UNCHANGED <<pending, streams, clock>>

\* GET /
Root ==
    /\ last' = Step("root", "", TRUE, StatusOK,
                    [name |-> "Snowflake MCP Server", version |-> "1.0.0",
                     status |-> "running", transport |-> "http"], <<>>, None)
    /\ UNCHANGED <<mcp_server, pending, streams, clock>>

\* GET /tools
ListTools ==
    /\ last' = IF mcp_server = None
               THEN NotInitialized("list_tools", "")
               ELSE Step("list_tools", "", TRUE, StatusOK,
                         [tools |-> get_tools_list(mcp_server)], <<>>, None)
    /\ UNCHANGED <<mcp_server, pending, streams, clock>>

\* POST /tools/{tool_name}, up to the response or to the await of the handler
CallTool(tool_name, arguments) ==
    /\ IF mcp_server = None
       THEN /\ last' = NotInitialized("call_tool", tool_name)
            /\ UNCHANGED pending
       ELSE LET r == CallToolBegin(mcp_server, tool_name, arguments)
            IN  IF r.returned
                THEN /\ last' = Step("call_tool", tool_name, TRUE, StatusOK, r.body,
                                     r.invoked, None)
                     /\ UNCHANGED pending
                ELSE /\ pending < MaxPending
                     /\ pending' = pending + 1
                     /\ last' = Step("call_tool", tool_name, FALSE, StatusOK, None,
                                     r.invoked, None)
    /\ UNCHANGED <<mcp_server, streams, clock>>

\* the awaited handler of a suspended invocation completes; call_tool runs to its
\* end and the endpoint returns its result (an exception leaving call_tool would
\* reach the framework, which answers with a server fault).  After the await
\* call_tool reads nothing but the handler's result, so a suspended coroutine is
\* not told apart from another one.
HandlerCompletes(outcome) ==
    /\ pending > 0
    /\ pending' = pending - 1
    /\ LET r == CallToolResume(outcome)
       IN  last' = IF r.kind = "raise"
                   THEN Step("call_tool_resumed", "", TRUE, StatusServerFault,
                             [detail |-> "Internal Server Error"], <<>>, outcome)
                   ELSE Step("call_tool_resumed", "", TRUE, StatusOK, r.value,
                             <<>>, outcome)
    /\ UNCHANGED <<mcp_server, streams, clock>>

----------------------------------------------------------------------------
(* GET /sse: one event_stream generator per connection *)

ConnectionEvent == [type |-> "connection", status |-> "connected"]

PingEvent(now) == [type |-> "ping", timestamp |-> now]

NoSleep(now) == now

\* await asyncio.sleep(30): the time at which the sleep is over
SleepUntil(now) == now + SleepInterval

\* a client connects: sse_endpoint creates a generator and hands it to
\* StreamingResponse
Connect ==
    /\ Len(streams) < MaxStreams
    /\ streams' = Append(streams, [pc |-> "created", connected |-> TRUE,
                                   events |-> <<>>, wake |-> 0])
    /\ UNCHANGED <<mcp_server, pending, last, clock>>

\* the generator runs to its first yield
YieldConnection(i) ==
    /\ streams[i].pc = "created"
    /\ streams' = [streams EXCEPT ![i].pc = "yielded",
                                  ![i].events = Append(@, ConnectionEvent)]
    /\ UNCHANGED <<mcp_server, pending, last, clock>>

\* the generator is resumed after a yield of a ping and starts its sleep
Sleep(i) ==
    /\ streams[i].pc = "yielded_ping"
    /\ streams' = [streams EXCEPT ![i].pc = "sleeping", ![i].wake = SleepUntil(clock)]
    /\ UNCHANGED <<mcp_server, pending, last, clock>>

\* the generator reaches the yield of the loop: after the connection event, or
\* when its sleep is over
YieldPing(i) ==
    /\ \/ streams[i].pc = "yielded"
       \/ streams[i].pc = "sleeping" /\ clock >= streams[i].wake
    /\ Len(streams[i].events) < MaxEvents
    /\ streams' = [streams EXCEPT ![i].pc = "yielded_ping",
                                  ![i].events = Append(@, PingEvent(clock))]
    /\ UNCHANGED <<mcp_server, pending, last, clock>>

\* the client goes away
Disconnect(i) ==
    /\ streams[i].connected
    /\ streams' = [streams EXCEPT ![i].connected = FALSE]
    /\ UNCHANGED <<mcp_server, pending, last, clock>>

\* StreamingResponse may cancel the generator of a closed connection; the
\* generator itself never looks at the connection
TransportCancels(i) ==
    /\ ~streams[i].connected
    /\ streams[i].pc # "cancelled"
    /\ streams' = [streams EXCEPT ![i].pc = "cancelled"]
    /\ UNCHANGED <<mcp_server, pending, last, clock>>

\* time passes
Tick ==
    /\ clock + TickStep <= MaxClock
    /\ clock' = clock + TickStep
    /\ UNCHANGED <<mcp_server, pending, last, streams>>

----------------------------------------------------------------------------
(* Specifications *)

Init ==
    /\ mcp_server = None
    /\ pending = 0
    /\ last = Step("import", "", FALSE, StatusOK, None, <<>>, None)
    /\ streams = <<>>
    /\ clock = 0

Initialize ==
    \E allow_write \in BOOLEAN, exclude_tools \in SUBSET ExcludeCandidates,
       exclude_json_results \in BOOLEAN, exclusion_config \in ExclusionConfigs :
        InitializeServer(allow_write, exclude_tools, exclude_json_results,
                         exclusion_config)

Invoke == \E tool_name \in ToolNames, arguments \in Arguments :
              CallTool(tool_name, arguments)

Complete == \E outcome \in HandlerOutcomes : HandlerCompletes(outcome)

Next ==
    \/ Initialize
    \/ Root
    \/ ListTools
    \/ Invoke
    \/ Complete

\* the tool gateway: initialisation and the request endpoints
Spec == Init /\ [][Next]_vars

StreamNext ==
    \/ Connect
    \/ Tick
    \/ \E i \in 1..Len(streams) : YieldConnection(i)
    \/ \E i \in 1..Len(streams) : YieldPing(i)
    \/ \E i \in 1..Len(streams) : Sleep(i)
    \/ \E i \in 1..Len(streams) : Disconnect(i)
    \/ \E i \in 1..Len(streams) : TransportCancels(i)

\* the streaming endpoint, which shares no state with the gateway
StreamSpec == Init /\ [][StreamNext]_vars

----------------------------------------------------------------------------
(* Properties of the tool gateway, checked under Spec *)

EightCatalogNames ==
    {"list_databases", "list_schemas", "list_tables", "describe_table",
     "read_query", "append_insight", "write_query", "create_table"}

SixReadOnlyNames ==
    {"list_databases", "list_schemas", "list_tables", "describe_table",
     "read_query", "append_insight"}

WriteTaggedNames == {"write_query", "create_table"}

Initialized == mcp_server # None

RegistryNameSet == {t.name : t \in Range(mcp_server.allowed_tools)}

\* C1: after construction the Registry holds a descriptor named X iff X is one
\* of the eight catalog names, X is not in exclude_tools, and allow_write holds
\* or X is not tagged "write"; allow_write=false with nothing excluded gives
\* exactly the six read-only tools, allow_write=true with create_table excluded
\* gives those six plus write_query.
C1_RegistryMembership ==
    Initialized =>
        /\ \A X \in ToolNames \cup RegistryNameSet :
              (X \in RegistryNameSet) <=>
                  /\ X \in EightCatalogNames
                  /\ X \notin mcp_server.exclude_tools
                  /\ (mcp_server.allow_write \/ X \notin WriteTaggedNames)
        /\ (~mcp_server.allow_write /\ mcp_server.exclude_tools = {}) =>
              /\ RegistryNameSet = SixReadOnlyNames
              /\ Len(mcp_server.allowed_tools) = 6
        /\ (mcp_server.allow_write /\ mcp_server.exclude_tools = {"create_table"}) =>
              /\ RegistryNameSet = SixReadOnlyNames \cup {"write_query"}
              /\ Len(mcp_server.allowed_tools) = 7

C1_Witness ==
    /\ Initialized
    /\ mcp_server.allow_write
    /\ mcp_server.exclude_tools = {"create_table"}
    /\ Len(mcp_server.allowed_tools) = 7

\* C2: an invocation of a name that is in the configured exclude_tools, in the
\* catalog or not, answers {error: "Tool <name> is excluded from this data
\* connection"} and calls no handler.
C2_ExcludedNeverInvoked ==
    (Initialized /\ last.op = "call_tool" /\ last.name \in mcp_server.exclude_tools) =>
        /\ last.responded
        /\ last.status = 200
        /\ last.body =
              [error |-> "Tool " \o last.name \o " is excluded from this data connection"]
        /\ last.invoked = <<>>

C2_Witness ==
    /\ Initialized
    /\ last.op = "call_tool"
    /\ last.name = "drop_table"
    /\ mcp_server.exclude_tools = {"drop_table", "list_tables"}
    /\ last.body = [error |-> "Tool drop_table is excluded from this data connection"]

\* C3: an invocation of a name that is not excluded and not in the Registry
\* answers {error: "Unknown tool: <name>"} and calls no handler; while
\* allow_write is false no invocation calls a write handler.
C3_UnknownToolNeverInvoked ==
    (Initialized /\ last.op = "call_tool") =>
        /\ (last.name \notin mcp_server.exclude_tools /\ last.name \notin RegistryNameSet) =>
              /\ last.responded
              /\ last.status = 200
              /\ last.body = [error |-> "Unknown tool: " \o last.name]
              /\ last.invoked = <<>>
        /\ ~mcp_server.allow_write =>
              \A k \in 1..Len(last.invoked) :
                  last.invoked[k].handler.callable
                      \notin {"handle_write_query", "handle_create_table"}

C3_Witness ==
    /\ Initialized
    /\ ~mcp_server.allow_write
    /\ mcp_server.exclude_tools = {}
    /\ last.op = "call_tool"
    /\ last.name = "write_query"
    /\ last.body = [error |-> "Unknown tool: write_query"]

NormalizationFails(outcome) ==
    /\ outcome.kind = "return"
    /\ LET v == outcome.value
       IN  IF v.type = "list"
           THEN \E i \in 1..Len(v.items) : v.items[i].type = "Unprintable"
           ELSE v.type = "Unprintable"

\* C4: every invocation of call_tool that has run to its end produced exactly
\* {result: ...} or {error: message} and raised nothing; a failure of the
\* handler, or of the conversion of its result, comes back as {error: str(failure)}.
C4_AlwaysResultOrError ==
    (Initialized /\ last.op \in {"call_tool", "call_tool_resumed"} /\ last.responded) =>
        /\ last.status = 200
        /\ DOMAIN last.body \in {{"result"}, {"error"}}
        /\ (last.op = "call_tool_resumed" /\ last.outcome.kind = "raise") =>
              last.body = [error |-> last.outcome.exc.message]
        /\ (last.op = "call_tool_resumed" /\ NormalizationFails(last.outcome)) =>
              last.body = [error |-> "cannot render"]

C4_Witness ==
    /\ last.op = "call_tool_resumed"
    /\ last.outcome.kind = "raise"
    /\ last.body = [error |-> "connection lost"]

C6_FaultOnlyBeforeInit ==
    /\ (~Initialized /\ last.op \in {"list_tools", "call_tool"}) =>
          /\ last.responded
          /\ last.status = 500
          /\ last.body = [detail |-> "Server not initialized"]
          /\ last.invoked = <<>>
    /\ (Initialized /\ last.op \in {"list_tools", "call_tool", "call_tool_resumed"}
                    /\ last.responded) =>
          /\ last.status = 200
          /\ last.body # [detail |-> "Server not initialized"]
          /\ last.op # "list_tools" => DOMAIN last.body \in {{"result"}, {"error"}}
    /\ (~Initialized) => pending = 0

\* C6: GET /tools and POST /tools/{tool_name} answer 500 "Server not
\* initialized", calling no handler, while the Registry has not been constructed;
\* once it has been constructed it stays constructed, neither endpoint answers
\* that fault again, and an invocation answers its DispatchResult with status 200.
C6_InitializationGuard ==
    /\ []C6_FaultOnlyBeforeInit
    /\ [][Initialized => Initialized']_vars

C6_Witness ==
    /\ ~Initialized
    /\ last.op = "call_tool"
    /\ last.name = "read_query"
    /\ last.status = 500

\* C7: the listing is the projection of the Registry: same length, the same
\* names in the same order, each item carrying name, description and
\* input_schema and nothing else.
C7_ListingProjectsRegistry ==
    (Initialized /\ last.op = "list_tools") =>
        LET tools == last.body.tools
            registry == mcp_server.allowed_tools
        IN  /\ Len(tools) = Len(registry)
            /\ \A i \in 1..Len(registry) :
                  /\ DOMAIN tools[i] = {"name", "description", "input_schema"}
                  /\ tools[i].name = registry[i].name
                  /\ tools[i].description = registry[i].description
                  /\ tools[i].input_schema = registry[i].input_schema

C7_Witness ==
    /\ Initialized
    /\ last.op = "list_tools"
    /\ Len(last.body.tools) = 7
    /\ last.body.tools[7].name = "write_query"

\* C10: an invocation that reaches a handler makes exactly one handler call, to
\* the handler of the descriptor named as requested; the call carries the
\* exclusion configuration iff the name is list_databases, list_schemas or
\* list_tables, and carries exclude_json_results in every case.
C10_CallingConvention ==
    (Initialized /\ last.op = "call_tool" /\ last.invoked # <<>>) =>
        /\ Len(last.invoked) = 1
        /\ LET call == last.invoked[1]
           IN  /\ \E t \in Range(mcp_server.allowed_tools) :
                      t.name = last.name /\ t.handler = call.handler
               /\ call.handler.callable = "handle_" \o last.name
               /\ ("exclusion_config" \in DOMAIN call.kwargs) <=>
                      last.name \in {"list_databases", "list_schemas", "list_tables"}
               /\ "exclusion_config" \in DOMAIN call.kwargs =>
                      call.kwargs.exclusion_config = mcp_server.exclusion_config
               /\ DOMAIN call.kwargs \subseteq {"exclusion_config", "exclude_json_results"}
               /\ "exclude_json_results" \in DOMAIN call.kwargs
               /\ call.kwargs.exclude_json_results = mcp_server.exclude_json_results

C10_Witness ==
    /\ Initialized
    /\ last.op = "call_tool"
    /\ last.name = "describe_table"
    /\ Len(last.invoked) = 1
    /\ DOMAIN last.invoked[1].kwargs = {"exclude_json_results"}

----------------------------------------------------------------------------
(* Properties of the streaming endpoint, checked under StreamSpec *)

\* C8: on every connection the first event is {type: "connection", status:
\* "connected"}, emitted once; every later event is a ping; consecutive pings
\* are at least the 30 second sleep apart, so their timestamps never decrease;
\* a later connection starts again with a connection event.
C8_StreamShape ==
    \A i \in 1..Len(streams) :
        LET ev == streams[i].events
        IN  /\ streams[i].pc \in {"yielded", "yielded_ping", "sleeping"} => ev # <<>>
            /\ ev # <<>> => ev[1] = [type |-> "connection", status |-> "connected"]
            /\ \A k \in 2..Len(ev) : ev[k].type = "ping"
            /\ \A k \in 2..(Len(ev) - 1) :
                  /\ ev[k + 1].timestamp >= ev[k].timestamp
                  /\ ev[k + 1].timestamp - ev[k].timestamp >= 30

C8_Witness ==
    /\ Len(streams) = 2
    /\ ~streams[1].connected
    /\ Len(streams[1].events) >= 2
    /\ Len(streams[2].events) = 3
    /\ streams[2].events[3].type = "ping"

\* C9: the heartbeat task checks for disconnection at each of its suspension
\* points (each yield, each sleep), so that a stream whose client has
\* disconnected emits no further ping.
C9_NoPingAfterDisconnect ==
    [][\A i \in 1..Len(streams) :
          ~streams[i].connected =>
              \A k \in (Len(streams[i].events) + 1)..Len(streams'[i].events) :
                  streams'[i].events[k].type # "ping"]_vars

====
